---- MODULE Spec2Model ----
(***************************************************************************)
(* The Tag integration (homeassistant/components/tag/__init__.py): a       *)
(* stored collection of tag records, the change listener that projects     *)
(* the records into TagEntity objects, and the scan entry point.           *)
(*                                                                         *)
(* Python dicts are functions with a finite domain of keys.  The string    *)
(* form of a datetime is a tuple: <<>> is the empty string "", <<s>> is    *)
(* the ISO form of a datetime without a fraction, <<s, u>> the ISO form    *)
(* with its six-digit microsecond fraction.                                *)
(***************************************************************************)
EXTENDS Integers, Sequences, FiniteSets, TLC

VARIABLES
    setup,      \* DOMAIN in hass.config.components: async_setup has returned
    data,       \* storage_collection.data: item id -> item
    order,      \* insertion order of the keys of data (async_items order)
    stored,     \* the snapshot held by the Store: [data, order]
    entities,   \* the entities dict of async_setup: tag id -> TagEntity
    states,     \* hass.states: entity_id -> published state and attributes
    now,        \* the value dt_util.utcnow() returns
    pc,         \* position of the running collection call
    pending,    \* the change the running call still has to notify
    call,       \* the last call made, its arguments and the item it found
    result,     \* what the last call returned or raised
    notes,      \* the changes the listener was told during the last call
    pubLog,     \* tag ids of the entities that wrote state during the last call
    events,     \* the tag_scanned events fired during the last call
    nops,       \* number of calls made so far
    tasks       \* the async_scan_tag calls made at the same time, each with
                \* what it has done so far

vars == <<setup, data, order, stored, entities, states, now, pc, pending,
          call, result, notes, pubLog, events, nops, tasks>>

(***************************************************************************)
(* Bounds                                                                  *)
(***************************************************************************)
\* number of calls made in one behaviour
MaxOps == 3

(***************************************************************************)
(* Constants of the program                                                *)
(***************************************************************************)
TAG_ID == "tag_id"
CONF_NAME == "name"
DESCRIPTION == "description"
LAST_SCANNED == "last_scanned"
DEVICE_ID == "device_id"
DEFAULT_NAME == "Tag"
CHANGE_ADDED == "added"
CHANGE_UPDATED == "updated"
CHANGE_REMOVED == "removed"
EVENT_TAG_SCANNED == "tag_scanned"

None == "<None>"
EmptyStr == <<>>
EmptyDict == <<>>
NoChange == [change_type |-> "none"]

(***************************************************************************)
(* Input domains                                                           *)
(***************************************************************************)
TagIds == {"tagA", "tagB"}
\* what str(uuid.uuid4()) may return; nothing keeps it from being a key of
\* the map already
UUIDs == {"u1"}
Devices == {"devX", "devY"}
\* the clock readings of the model; second 0 is the past
Seconds == {1}
Micros == {0, 1500}
DateTimes == [sec : Seconds, us : Micros]

Later(a, b) == a.sec > b.sec \/ (a.sec = b.sec /\ a.us > b.us)

(***************************************************************************)
(* dict helpers                                                            *)
(***************************************************************************)
Get(d, k, default) == IF k \in DOMAIN d THEN d[k] ELSE default

Merge(a, b) ==
    [k \in DOMAIN a \cup DOMAIN b |-> IF k \in DOMAIN b THEN b[k] ELSE a[k]]

Put(d, k, v) == [x \in DOMAIN d \cup {k} |-> IF x = k THEN v ELSE d[x]]

Pop(d, k) == [x \in DOMAIN d \ {k} |-> d[x]]

Without(s, k) == SelectSeq(s, LAMBDA x : x # k)

(***************************************************************************)
(* datetime conversions                                                    *)
(***************************************************************************)
\* datetime.isoformat(): the fraction is written only when it is not zero
isoformat(dt) == IF dt.us = 0 THEN <<dt.sec>> ELSE <<dt.sec, dt.us>>

\* dt_util.parse_datetime: None (here <<>>) when the string is not a datetime
parse_datetime(s) ==
    IF Len(s) = 0 THEN <<>>
    ELSE <<[sec |-> s[1], us |-> IF Len(s) = 2 THEN s[2] ELSE 0]>>

\* datetime.isoformat(timespec="milliseconds"): always three digits
isoformat_ms(dt) == <<dt.sec, dt.us \div 1000>>

\* util.slugify on the names of the model
slugify(name) ==
    CASE name = "Tag" -> "tag"
      [] name = "Door" -> "door"
      [] name = "door" -> "door"
      [] OTHER -> "unknown"


(***************************************************************************)
(* voluptuous schemas                                                      *)
(***************************************************************************)
CREATE_FIELDS == {TAG_ID, CONF_NAME, DESCRIPTION, LAST_SCANNED, DEVICE_ID}

\* UPDATE_FIELDS with the id among the fields a patch may carry
UPDATE_FIELDS_with_id == {TAG_ID, CONF_NAME, DESCRIPTION, LAST_SCANNED, DEVICE_ID}

UPDATE_FIELDS == {CONF_NAME, DESCRIPTION, LAST_SCANNED, DEVICE_ID}

\* vol.Schema(fields)(d): unknown keys are rejected, name has length >= 1,
\* last_scanned is a datetime
SchemaAccepts(fields, d) ==
    /\ DOMAIN d \subseteq fields
    /\ CONF_NAME \in DOMAIN d => d[CONF_NAME] # ""
    /\ LAST_SCANNED \in DOMAIN d => d[LAST_SCANNED] \in DateTimes

(***************************************************************************)
(* TagIDManager                                                            *)
(***************************************************************************)
has_id(d, item_id) == item_id \in DOMAIN d

\* generate_id without the has_id test
generate_id_unchecked(d, suggestion) == [ok |-> TRUE, id |-> suggestion]

\* generate_id as the base IDManager does it: a taken id is replaced by a
\* free one instead of being refused
generate_id_renaming(d, suggestion) ==
    IF has_id(d, suggestion) /\ \E i \in {"tagA", "tagB", "u1"} : ~has_id(d, i)
    THEN [ok |-> TRUE, id |-> CHOOSE i \in {"tagA", "tagB", "u1"} : ~has_id(d, i)]
    ELSE IF has_id(d, suggestion)
    THEN [ok |-> FALSE, err |-> "TagIDExistsError"]
    ELSE [ok |-> TRUE, id |-> suggestion]

generate_id(d, suggestion) ==
    IF has_id(d, suggestion)
    THEN [ok |-> FALSE, err |-> "TagIDExistsError"]
    ELSE [ok |-> TRUE, id |-> suggestion]

(***************************************************************************)
(* TagStorageCollection                                                    *)
(***************************************************************************)
\* uuid is the value str(uuid.uuid4()) would return
process_create_data(payload, uuid) ==
    IF ~SchemaAccepts(CREATE_FIELDS, payload)
    THEN [ok |-> FALSE, err |-> "Invalid"]
    ELSE IF TAG_ID \notin DOMAIN payload
    THEN [ok |-> FALSE, err |-> "KeyError"]
    ELSE LET d1 == IF payload[TAG_ID] = ""
                   THEN Put(payload, TAG_ID, uuid) ELSE payload
             d2 == IF LAST_SCANNED \in DOMAIN d1
                   THEN Put(d1, LAST_SCANNED, isoformat(d1[LAST_SCANNED]))
                   ELSE d1
         IN  [ok |-> TRUE, data |-> d2]

get_suggested_id(info) == info[TAG_ID]

\* _update_data with the patch merged as given
update_data_unvalidated(item, update) ==
    LET d1 == Merge(item, update)
        d2 == IF LAST_SCANNED \in DOMAIN update /\ update[LAST_SCANNED] \in DateTimes
              THEN Put(d1, LAST_SCANNED, isoformat(d1[LAST_SCANNED]))
              ELSE d1
    IN  [ok |-> TRUE, data |-> d2]

\* _update_data with the merge the other way round: {**update, **item}
update_data_item_wins(item, update) ==
    IF ~SchemaAccepts(UPDATE_FIELDS, update)
    THEN [ok |-> FALSE, err |-> "Invalid"]
    ELSE LET d1 == Merge(update, item)
             d2 == IF LAST_SCANNED \in DOMAIN update \ DOMAIN item
                   THEN Put(d1, LAST_SCANNED, isoformat(d1[LAST_SCANNED]))
                   ELSE d1
         IN  [ok |-> TRUE, data |-> d2]

update_data(item, update) ==
    IF ~SchemaAccepts(UPDATE_FIELDS, update)
    THEN [ok |-> FALSE, err |-> "Invalid"]
    ELSE LET d1 == Merge(item, update)
             d2 == IF LAST_SCANNED \in DOMAIN update
                   THEN Put(d1, LAST_SCANNED, isoformat(d1[LAST_SCANNED]))
                   ELSE d1
         IN  [ok |-> TRUE, data |-> d2]

(***************************************************************************)
(* TagEntity                                                               *)
(***************************************************************************)
TagEntity(name, tag_id, last_scanned, device_id) ==
    [entity_id |-> <<"tag", slugify(name)>>,
     name |-> name,
     tag_id |-> tag_id,
     last_device_id |-> device_id,
     last_scanned |-> last_scanned]

\* TagEntity.state: None is <<>>
state(e) ==
    LET parsed == parse_datetime(e.last_scanned)
    IN  IF parsed = <<>> THEN <<>> ELSE isoformat_ms(parsed[1])

extra_state_attributes(e) ==
    [tag_id |-> e.tag_id, device_id |-> e.last_device_id]

\* Entity.async_write_ha_state: the state machine holds, under the entity's
\* entity_id, its state and attributes
async_write_ha_state(sts, e) ==
    Put(sts, e.entity_id,
        [state |-> state(e), attributes |-> extra_state_attributes(e)])

async_add_initial_state(sts, e) == async_write_ha_state(sts, e)

\* hass.states.async_remove
states_async_remove(sts, entity_id) == Pop(sts, entity_id)

\* Entity.async_remove of an entity without a registry entry
entity_async_remove(sts, e) == states_async_remove(sts, e.entity_id)

\* TagEntity.async_handle_event: the entity after the call
\* async_handle_event that takes the device and leaves _last_scanned
async_handle_event_device_only(e, device_id, last_scanned) ==
    [e EXCEPT !.last_device_id = device_id]

async_handle_event(e, device_id, last_scanned) ==
    [e EXCEPT !.last_device_id = device_id, !.last_scanned = last_scanned]

(***************************************************************************)
(* tag_change_listener: what one notification does to the entities dict    *)
(* and to the state machine.  pubs lists the entities that wrote state.    *)
(***************************************************************************)
ListenerAdded(ents, sts, cfg) ==
    LET e == TagEntity(Get(cfg, CONF_NAME, DEFAULT_NAME), cfg[TAG_ID],
                       Get(cfg, LAST_SCANNED, EmptyStr), Get(cfg, DEVICE_ID, None))
    IN  [ok |-> TRUE,
         entities |-> Put(ents, cfg[TAG_ID], e),
         states |-> async_add_initial_state(sts, e),
         pubs |-> <<cfg[TAG_ID]>>]

\* ListenerUpdated without the comparison of last_scanned
ListenerUpdatedAlways(ents, sts, cfg) ==
    IF cfg[TAG_ID] \notin DOMAIN ents
    THEN [ok |-> FALSE, err |-> "KeyError", entities |-> ents, states |-> sts,
          pubs |-> <<>>]
    ELSE LET e == async_handle_event(ents[cfg[TAG_ID]],
                                     Get(cfg, DEVICE_ID, None),
                                     Get(cfg, LAST_SCANNED, EmptyStr))
         IN  [ok |-> TRUE,
              entities |-> Put(ents, cfg[TAG_ID], e),
              states |-> async_write_ha_state(sts, e),
              pubs |-> <<cfg[TAG_ID]>>]

ListenerUpdated(ents, sts, cfg) ==
    IF cfg[TAG_ID] \notin DOMAIN ents
    THEN [ok |-> FALSE, err |-> "KeyError", entities |-> ents, states |-> sts,
          pubs |-> <<>>]
    ELSE IF ents[cfg[TAG_ID]].last_scanned # Get(cfg, LAST_SCANNED, EmptyStr)
    THEN LET e == async_handle_event(ents[cfg[TAG_ID]],
                                     Get(cfg, DEVICE_ID, None),
                                     Get(cfg, LAST_SCANNED, EmptyStr))
         IN  [ok |-> TRUE,
              entities |-> Put(ents, cfg[TAG_ID], e),
              states |-> async_write_ha_state(sts, e),
              pubs |-> <<cfg[TAG_ID]>>]
    ELSE [ok |-> TRUE, entities |-> ents, states |-> sts, pubs |-> <<>>]

\* ListenerRemoved that forgets the entity but leaves its state published
ListenerRemovedKeepingState(ents, sts, cfg) ==
    IF cfg[TAG_ID] \notin DOMAIN ents
    THEN [ok |-> FALSE, err |-> "KeyError", entities |-> ents, states |-> sts,
          pubs |-> <<>>]
    ELSE [ok |-> TRUE,
          entities |-> Pop(ents, cfg[TAG_ID]),
          states |-> sts,
          pubs |-> <<>>]

ListenerRemoved(ents, sts, cfg) ==
    IF cfg[TAG_ID] \notin DOMAIN ents
    THEN [ok |-> FALSE, err |-> "KeyError", entities |-> ents, states |-> sts,
          pubs |-> <<>>]
    ELSE LET e == ents[cfg[TAG_ID]]
             s1 == entity_async_remove(sts, e)
             s2 == states_async_remove(s1, e.entity_id)
             s3 == states_async_remove(s2, e.entity_id)
         IN  [ok |-> TRUE,
              entities |-> Pop(ents, cfg[TAG_ID]),
              states |-> s3,
              pubs |-> <<>>]

tag_change_listener(ents, sts, change_type, item_id, cfg) ==
    CASE change_type = CHANGE_ADDED -> ListenerAdded(ents, sts, cfg)
      [] change_type = CHANGE_UPDATED -> ListenerUpdated(ents, sts, cfg)
      [] change_type = CHANGE_REMOVED -> ListenerRemoved(ents, sts, cfg)

(***************************************************************************)
(* The collection engine (helpers.collection): create, update and delete   *)
(* up to the point where the changed map is to be saved.                   *)
(***************************************************************************)
create_item(item_id, d) == d

async_create_item(d, payload, uuid) ==
    LET validated == process_create_data(payload, uuid)
    IN  IF ~validated.ok THEN [ok |-> FALSE, err |-> validated.err]
        ELSE LET gen == generate_id(d, get_suggested_id(validated.data))
             IN  IF ~gen.ok THEN [ok |-> FALSE, err |-> gen.err]
                 ELSE [ok |-> TRUE,
                       id |-> gen.id,
                       item |-> create_item(gen.id, validated.data),
                       change_type |-> CHANGE_ADDED]

async_update_item(d, item_id, updates) ==
    IF item_id \notin DOMAIN d THEN [ok |-> FALSE, err |-> "ItemNotFound"]
    ELSE LET updated == update_data(d[item_id], updates)
         IN  IF ~updated.ok THEN [ok |-> FALSE, err |-> updated.err]
             ELSE [ok |-> TRUE,
                   id |-> item_id,
                   item |-> updated.data,
                   change_type |-> CHANGE_UPDATED]

\* async_delete_item without the ItemNotFound test
async_delete_item_unchecked(d, item_id) ==
    [ok |-> TRUE,
     id |-> item_id,
     item |-> Get(d, item_id, EmptyDict),
     change_type |-> CHANGE_REMOVED]

async_delete_item(d, item_id) ==
    IF item_id \notin DOMAIN d THEN [ok |-> FALSE, err |-> "ItemNotFound"]
    ELSE [ok |-> TRUE,
          id |-> item_id,
          item |-> d[item_id],
          change_type |-> CHANGE_REMOVED]

\* the map and the key order after a call that succeeded
DataAfter(d, r) ==
    IF r.change_type = CHANGE_REMOVED THEN Pop(d, r.id) ELSE Put(d, r.id, r.item)

OrderAfter(ord, r) ==
    CASE r.change_type = CHANGE_ADDED -> Append(ord, r.id)
      [] r.change_type = CHANGE_REMOVED -> Without(ord, r.id)
      [] OTHER -> ord

\* the snapshot the Store is given
Snapshot(d, ord) == [data |-> d, order |-> ord]

(***************************************************************************)
(* Inputs of the calls                                                     *)
(***************************************************************************)
\* a value that is not a datetime
NotADateTime == [text |-> "yesterday"]

\* payloads CREATE_SCHEMA rejects: an empty name, an unknown key, a
\* last_scanned of the wrong type
InvalidCreatePayloads ==
    {[tag_id |-> "tagB", name |-> ""],
     [tag_id |-> "tagB", color |-> "red"],
     [tag_id |-> "tagB", last_scanned |-> NotADateTime]}

\* patches UPDATE_SCHEMA rejects: an empty name, the id field
InvalidUpdatePatches ==
    {[name |-> ""], [tag_id |-> "tagB"]}

CreatePayloads ==
    {[tag_id |-> t] : t \in TagIds \cup {""}}
    \cup {[tag_id |-> t, name |-> "Door"] : t \in TagIds}
    \cup {[tag_id |-> "tagA", last_scanned |-> dt, device_id |-> "devX"] :
              dt \in DateTimes}
    \cup {[name |-> "Door"]}
    \cup InvalidCreatePayloads

UpdatePatches ==
    {[name |-> "Door"], [description |-> "d"], [device_id |-> "devY"]}
    \cup {[last_scanned |-> dt] : dt \in DateTimes}
    \cup {[last_scanned |-> dt, device_id |-> "devX"] : dt \in DateTimes}
    \cup InvalidUpdatePatches

ItemIds == TagIds \cup UUIDs

ScanTagIds == TagIds \cup {""}

ScanDevices == Devices \cup {None}

\* what the Store may hold when the program starts
InitialSnapshots ==
    {Snapshot(EmptyDict, <<>>),
     Snapshot([i \in {"tagA"} |->
                  [tag_id |-> "tagA", last_scanned |-> <<0>>, device_id |-> "devX"]],
              <<"tagA">>),
     Snapshot([i \in {"tagA", "tagB"} |->
                  IF i = "tagA" THEN [tag_id |-> "tagA", name |-> "Door"]
                  ELSE [tag_id |-> "tagB"]],
              <<"tagB", "tagA">>)}

(***************************************************************************)
(* Initial state: nothing is set up, the Store holds a snapshot            *)
(***************************************************************************)
Init ==
    /\ setup = FALSE
    /\ data = EmptyDict
    /\ order = <<>>
    /\ stored \in InitialSnapshots
    /\ entities = EmptyDict
    /\ states = EmptyDict
    /\ now = [sec |-> 1, us |-> 0]
    /\ pc = "idle"
    /\ pending = NoChange
    /\ call = [op |-> "none"]
    /\ result = [ok |-> TRUE, value |-> None]
    /\ notes = <<>>
    /\ pubLog = <<>>
    /\ events = <<>>
    /\ nops = 0
    /\ tasks = <<>>

(***************************************************************************)
(* async_setup                                                             *)
(***************************************************************************)
\* AddEntities without the initial state of the entities
RECURSIVE AddEntitiesUnpublished(_, _)
AddEntitiesUnpublished(items, acc) ==
    IF items = <<>> THEN acc
    ELSE LET tag == Head(items)
             e == TagEntity(Get(tag, CONF_NAME, DEFAULT_NAME), tag[TAG_ID],
                            Get(tag, LAST_SCANNED, EmptyStr),
                            Get(tag, DEVICE_ID, None))
         IN  AddEntitiesUnpublished(Tail(items),
                         [entities |-> Put(acc.entities, tag[TAG_ID], e),
                          states |-> acc.states,
                          pubs |-> acc.pubs])

\* the loop over storage_collection.async_items()
RECURSIVE AddEntities(_, _)
AddEntities(items, acc) ==
    IF items = <<>> THEN acc
    ELSE LET tag == Head(items)
             e == TagEntity(Get(tag, CONF_NAME, DEFAULT_NAME), tag[TAG_ID],
                            Get(tag, LAST_SCANNED, EmptyStr),
                            Get(tag, DEVICE_ID, None))
         IN  AddEntities(Tail(items),
                         [entities |-> Put(acc.entities, tag[TAG_ID], e),
                          states |-> async_add_initial_state(acc.states, e),
                          pubs |-> Append(acc.pubs, tag[TAG_ID])])

async_items(d, ord) == [i \in 1..Len(ord) |-> d[ord[i]]]

Setup ==
    /\ pc = "idle"
    /\ ~setup
    /\ LET added == AddEntities(async_items(stored.data, stored.order),
                                [entities |-> EmptyDict, states |-> states,
                                 pubs |-> <<>>])
       IN  /\ data' = stored.data
           /\ order' = stored.order
           /\ entities' = added.entities
           /\ states' = added.states
           /\ pubLog' = added.pubs
    /\ setup' = TRUE
    /\ call' = [op |-> "setup"]
    /\ result' = [ok |-> TRUE, value |-> None]
    /\ notes' = <<>>
    /\ events' = <<>>
    /\ UNCHANGED <<stored, now, pc, pending, nops, tasks>>

(***************************************************************************)
(* A call of the collection: the map is changed, then saved, then the      *)
(* listener is told                                                        *)
(***************************************************************************)
\* r is the outcome of async_create_item, async_update_item or
\* async_delete_item on the current map; c describes the call, ev the events
\* fired before it
Begin(c, r, ev) ==
    /\ call' = c
    /\ nops' = nops + 1
    /\ notes' = <<>>
    /\ pubLog' = <<>>
    /\ events' = ev
    /\ IF r.ok
       THEN /\ data' = DataAfter(data, r)
            /\ order' = OrderAfter(order, r)
            /\ pending' = [change_type |-> r.change_type, item_id |-> r.id,
                           item |-> r.item]
            /\ result' = [ok |-> TRUE,
                          value |-> IF r.change_type = CHANGE_REMOVED
                                    THEN None ELSE r.item]
            /\ pc' = "save"
       ELSE /\ result' = [ok |-> FALSE, err |-> r.err]
            /\ UNCHANGED <<data, order, pending, pc>>
    /\ UNCHANGED <<setup, stored, entities, states, now>>

CanCall == pc = "idle" /\ setup /\ nops < MaxOps

Create ==
    /\ CanCall
    /\ \E payload \in CreatePayloads, uuid \in UUIDs :
          Begin([op |-> "create", payload |-> payload],
                async_create_item(data, payload, uuid), <<>>)
    /\ UNCHANGED tasks

Update ==
    /\ CanCall
    /\ \E item_id \in ItemIds, updates \in UpdatePatches :
          Begin([op |-> "update", item_id |-> item_id, updates |-> updates,
                 current |-> Get(data, item_id, EmptyDict)],
                async_update_item(data, item_id, updates), <<>>)
    /\ UNCHANGED tasks

Delete ==
    /\ CanCall
    /\ \E item_id \in ItemIds :
          Begin([op |-> "delete", item_id |-> item_id,
                 current |-> Get(data, item_id, EmptyDict)],
                async_delete_item(data, item_id), <<>>)
    /\ UNCHANGED tasks

\* Save with the write left for later
SaveDeferred ==
    /\ pc = "save"
    /\ pc' = "notify"
    /\ UNCHANGED <<setup, data, order, stored, entities, states, now, pending,
                   call, result, notes, pubLog, events, nops, tasks>>

Save ==
    /\ pc = "save"
    /\ stored' = Snapshot(data, order)
    /\ pc' = "notify"
    /\ UNCHANGED <<setup, data, order, entities, states, now, pending, call,
                   result, notes, pubLog, events, nops, tasks>>

Notify ==
    /\ pc = "notify"
    /\ LET l == tag_change_listener(entities, states, pending.change_type,
                                    pending.item_id, pending.item)
       IN  /\ entities' = l.entities
           /\ states' = l.states
           /\ pubLog' = pubLog \o l.pubs
           /\ result' = IF l.ok THEN result ELSE [ok |-> FALSE, err |-> l.err]
    /\ notes' = Append(notes, pending)
    /\ pending' = NoChange
    /\ pc' = "idle"
    /\ UNCHANGED <<setup, data, order, stored, now, call, events, nops, tasks>>

(***************************************************************************)
(* async_scan_tag                                                          *)
(***************************************************************************)
\* the event with the device_id the collection is given (device_id or "")
ScanEventStoredDevice(d, tag_id, device_id) ==
    [event_type |-> EVENT_TAG_SCANNED,
     tag_id |-> tag_id,
     name |-> IF tag_id \in DOMAIN d THEN Get(d[tag_id], CONF_NAME, None) ELSE None,
     device_id |-> IF device_id = None THEN "" ELSE device_id]

ScanEvent(d, tag_id, device_id) ==
    [event_type |-> EVENT_TAG_SCANNED,
     tag_id |-> tag_id,
     name |-> IF tag_id \in DOMAIN d THEN Get(d[tag_id], CONF_NAME, None)
              ELSE None,
     device_id |-> device_id]

\* device_id or ""
OrEmpty(device_id) == IF device_id = None THEN "" ELSE device_id

\* ScanOutcome that passes device_id on as it was given
ScanOutcomeRawDevice(d, tag_id, device_id, utcnow, uuid) ==
    IF tag_id \in DOMAIN d
    THEN async_update_item(d, tag_id,
             [last_scanned |-> utcnow, device_id |-> device_id])
    ELSE async_create_item(d,
             [tag_id |-> tag_id, last_scanned |-> utcnow,
              device_id |-> device_id], uuid)

\* async_scan_tag that creates without looking for the record
ScanOutcomeCreateOnly(d, tag_id, device_id, utcnow, uuid) ==
    async_create_item(d,
        [tag_id |-> tag_id, last_scanned |-> utcnow,
         device_id |-> OrEmpty(device_id)], uuid)

ScanOutcome(d, tag_id, device_id, utcnow, uuid) ==
    IF tag_id \in DOMAIN d
    THEN async_update_item(d, tag_id,
             [last_scanned |-> utcnow, device_id |-> OrEmpty(device_id)])
    ELSE async_create_item(d,
             [tag_id |-> tag_id, last_scanned |-> utcnow,
              device_id |-> OrEmpty(device_id)], uuid)

\* async_scan_tag without the check that the component is loaded
ScanUnguarded ==
    /\ pc = "idle"
    /\ nops < MaxOps
    /\ \E tag_id \in ScanTagIds, device_id \in ScanDevices, uuid \in UUIDs :
          Begin([op |-> "scan", tag_id |-> tag_id, device_id |-> device_id,
                 utcnow |-> now, current |-> Get(data, tag_id, EmptyDict)],
                ScanOutcome(data, tag_id, device_id, now, uuid),
                <<ScanEvent(data, tag_id, device_id)>>)
    /\ UNCHANGED tasks

Scan ==
    /\ pc = "idle"
    /\ nops < MaxOps
    /\ \E tag_id \in ScanTagIds, device_id \in ScanDevices, uuid \in UUIDs :
          LET c == [op |-> "scan", tag_id |-> tag_id, device_id |-> device_id,
                    utcnow |-> now, current |-> Get(data, tag_id, EmptyDict)]
          IN  IF ~setup
              THEN Begin(c, [ok |-> FALSE, err |-> "HomeAssistantError"], <<>>)
              ELSE Begin(c, ScanOutcome(data, tag_id, device_id, now, uuid),
                         <<ScanEvent(data, tag_id, device_id)>>)
    /\ UNCHANGED tasks

\* the clock may move on between two calls; it need not (two calls may read
\* the same utcnow())
Tick ==
    /\ pc = "idle"
    /\ \E t \in DateTimes : Later(t, now) /\ now' = t
    /\ UNCHANGED <<setup, data, order, stored, entities, states, pc, pending,
                   call, result, notes, pubLog, events, nops, tasks>>

Next == Setup \/ Create \/ Update \/ Delete \/ Scan \/ Save \/ Notify \/ Tick

Spec == Init /\ [][Next]_vars

(***************************************************************************)
(* A further listener of the collection that raises                        *)
(***************************************************************************)
\* the notification, undone in the map when the listener raises
NotifyRaisingUndone ==
    /\ pc = "notify"
    /\ LET l == tag_change_listener(entities, states, pending.change_type,
                                    pending.item_id, pending.item)
       IN  /\ entities' = l.entities
           /\ states' = l.states
           /\ pubLog' = pubLog \o l.pubs
    /\ data' = CASE pending.change_type = CHANGE_ADDED ->
                       Pop(data, pending.item_id)
                 [] pending.change_type = CHANGE_UPDATED ->
                       Put(data, pending.item_id, call.current)
                 [] pending.change_type = CHANGE_REMOVED ->
                       Put(data, pending.item_id, pending.item)
    /\ order' = CASE pending.change_type = CHANGE_ADDED ->
                        Without(order, pending.item_id)
                  [] pending.change_type = CHANGE_UPDATED -> order
                  [] pending.change_type = CHANGE_REMOVED ->
                        Append(order, pending.item_id)
    /\ result' = [ok |-> FALSE, err |-> "ListenerError"]
    /\ notes' = Append(notes, pending)
    /\ pending' = NoChange
    /\ pc' = "idle"
    /\ UNCHANGED <<setup, stored, now, call, events, nops, tasks>>

\* the listeners are told of the change and one of them, registered after
\* tag_change_listener, raises: the exception reaches the caller of the
\* mutation
NotifyRaising ==
    /\ pc = "notify"
    /\ LET l == tag_change_listener(entities, states, pending.change_type,
                                    pending.item_id, pending.item)
       IN  /\ entities' = l.entities
           /\ states' = l.states
           /\ pubLog' = pubLog \o l.pubs
    /\ result' = [ok |-> FALSE, err |-> "ListenerError"]
    /\ notes' = Append(notes, pending)
    /\ pending' = NoChange
    /\ pc' = "idle"
    /\ UNCHANGED <<setup, data, order, stored, now, call, events, nops, tasks>>

NextRaising ==
    Setup \/ Create \/ Update \/ Delete \/ Save \/ Notify \/ NotifyRaising

SpecRaising == Init /\ [][NextRaising]_vars

(***************************************************************************)
(* Two async_scan_tag calls made at the same time.  A call runs without    *)
(* suspension from its first line into the collection's create or update;  *)
(* the collection runs one mutation (map update, save, notify) at a time.  *)
(***************************************************************************)
\* a call that has not run yet; unknown records whether the tag had a record
\* when the calls were made
NewTask(tag_id, device_id) ==
    [tag_id |-> tag_id, device_id |-> device_id,
     unknown |-> tag_id \notin DOMAIN data, outcome |-> "ready"]

\* two calls for the same tag are made, each with its own device
Spawn ==
    /\ setup
    /\ pc = "idle"
    /\ tasks = <<>>
    /\ \E tag_id \in TagIds, d1 \in ScanDevices, d2 \in ScanDevices :
          tasks' = <<NewTask(tag_id, d1), NewTask(tag_id, d2)>>
    /\ UNCHANGED <<setup, data, order, stored, entities, states, now, pc,
                   pending, call, result, notes, pubLog, events, nops>>

\* the scheduler runs one of the calls: async_scan_tag from its first line
\* to the suspension inside the collection's create or update
TaskRun ==
    /\ pc = "idle"
    /\ nops < MaxOps
    /\ \E n \in DOMAIN tasks, uuid \in UUIDs :
          /\ tasks[n].outcome = "ready"
          /\ LET tag_id == tasks[n].tag_id
                 device_id == tasks[n].device_id
                 r == ScanOutcome(data, tag_id, device_id, now, uuid)
             IN  /\ Begin([op |-> "scan", tag_id |-> tag_id,
                           device_id |-> device_id, utcnow |-> now,
                           current |-> Get(data, tag_id, EmptyDict)],
                          r, <<ScanEvent(data, tag_id, device_id)>>)
                 /\ tasks' = [tasks EXCEPT ![n].outcome =
                                 IF r.ok THEN r.change_type ELSE r.err]

NextConcurrent == Setup \/ Spawn \/ TaskRun \/ Save \/ Notify \/ Tick

SpecConcurrent == Init /\ [][NextConcurrent]_vars

(***************************************************************************)
(* Properties                                                              *)
(***************************************************************************)
\* a step in which a call is made
Called == nops' = nops + 1

\* no change was made and none is left to be notified
NothingDone ==
    /\ data' = data
    /\ order' = order
    /\ stored' = stored
    /\ entities' = entities
    /\ states' = states
    /\ notes' = <<>>
    /\ pending' = NoChange
    /\ pc' = "idle"

\* C1: a create whose explicit id is already a key of the map raises
\* TagIDExistsError; the map, the stored snapshot and the entities are as
\* before and the listener is not told anything.
C1_IdConflict ==
    [][(/\ Called
        /\ call'.op = "create"
        /\ SchemaAccepts(CREATE_FIELDS, call'.payload)
        /\ TAG_ID \in DOMAIN call'.payload
        /\ call'.payload[TAG_ID] \in DOMAIN data)
       => /\ result' = [ok |-> FALSE, err |-> "TagIDExistsError"]
          /\ NothingDone]_vars

C1_Witness ==
    /\ pc = "idle"
    /\ call.op = "create"
    /\ result = [ok |-> FALSE, err |-> "TagIDExistsError"]
    /\ TAG_ID \in DOMAIN call.payload
    /\ call.payload[TAG_ID] \in DOMAIN data
    /\ data = stored.data

\* C2: a create whose payload has no id succeeds and stores the item under
\* a new id that was not a key of the map before.
C2_NoIdCreates ==
    [][(/\ Called
        /\ call'.op = "create"
        /\ SchemaAccepts(CREATE_FIELDS, call'.payload)
        /\ TAG_ID \notin DOMAIN call'.payload)
       => /\ result'.ok
          /\ result'.value[TAG_ID] \notin DOMAIN data
          /\ result'.value[TAG_ID] \in DOMAIN data'
          /\ data'[result'.value[TAG_ID]] = result'.value]_vars

\* C3: update and delete of an id that is no key of the map raise
\* ItemNotFound; the map and the stored snapshot are as before and the
\* listener is not told anything.
C3_NotFound ==
    [][(/\ Called
        /\ call'.op \in {"update", "delete"}
        /\ call'.item_id \notin DOMAIN data)
       => /\ result' = [ok |-> FALSE, err |-> "ItemNotFound"]
          /\ NothingDone]_vars

C3_Witness ==
    /\ pc = "idle"
    /\ call.op = "delete"
    /\ result = [ok |-> FALSE, err |-> "ItemNotFound"]
    /\ call.item_id \notin DOMAIN data
    /\ DOMAIN data # {}
    /\ data = stored.data

\* C5: whenever the listener is about to be told of a change, the stored
\* snapshot already equals the map in memory.
C5_SavedBeforeNotify ==
    pc = "notify" => stored = Snapshot(data, order)

C5_Witness ==
    /\ pc = "notify"
    /\ pending.change_type = CHANGE_REMOVED
    /\ pending.item_id \notin DOMAIN stored.data
    /\ stored.data = data

\* the change a successful create, update or delete has to notify
KindOf(op) ==
    CASE op = "create" -> CHANGE_ADDED
      [] op = "update" -> CHANGE_UPDATED
      [] op = "delete" -> CHANGE_REMOVED

\* C4: a create, update or delete that succeeded has told the listener
\* exactly one change, of its kind, with the id and the item the call
\* returned (for a delete: the item the call found in the map); a call that
\* failed has told it nothing.
C4_OneNotification ==
    /\ Len(notes) <= 1
    /\ pc # "idle" => notes = <<>>
    /\ (pc = "idle" /\ call.op \in {"create", "update", "delete"}) =>
          IF ~result.ok THEN notes = <<>>
          ELSE /\ Len(notes) = 1
               /\ notes[1].change_type = KindOf(call.op)
               /\ IF call.op = "delete"
                  THEN /\ notes[1].item_id = call.item_id
                       /\ notes[1].item = call.current
                       /\ call.item_id \notin DOMAIN data
                  ELSE /\ notes[1].item = result.value
                       /\ notes[1].item_id = result.value[TAG_ID]
                       /\ notes[1].item_id \in DOMAIN data
                       /\ data[notes[1].item_id] = result.value

C4_Witness ==
    /\ pc = "idle"
    /\ call.op = "create"
    /\ result.ok
    /\ Len(notes) = 1
    /\ notes[1].item = result.value
    /\ LAST_SCANNED \in DOMAIN result.value

\* the item a scan is to store for a tag id that was not known
ScanRecord(c) ==
    [tag_id |-> c.tag_id,
     last_scanned |-> isoformat(c.utcnow),
     device_id |-> OrEmpty(c.device_id)]

\* a scan, after setup, of one of the tag ids that is not in the map adds
\* exactly the item of that scan under the tag id
ScanUnknownBegins(ids) ==
    (/\ Called
     /\ call'.op = "scan"
     /\ setup
     /\ call'.tag_id \in ids
     /\ call'.tag_id \notin DOMAIN data)
    => /\ result'.ok
       /\ data' = Put(data, call'.tag_id, ScanRecord(call'))
       /\ call'.utcnow = now
       /\ pc' = "save"

\* and its notification adds exactly one entity, whose state is the scan
\* time in the millisecond form
ScanUnknownEnds(ids) ==
    (/\ pc = "notify"
     /\ call.op = "scan"
     /\ call.tag_id \in ids
     /\ call.current = EmptyDict)
    => /\ notes' = <<[change_type |-> CHANGE_ADDED, item_id |-> call.tag_id,
                      item |-> ScanRecord(call)]>>
       /\ call.tag_id \notin DOMAIN entities
       /\ DOMAIN entities' = DOMAIN entities \cup {call.tag_id}
       /\ \A i \in DOMAIN entities : entities'[i] = entities[i]
       /\ pubLog' = <<call.tag_id>>
       /\ state(entities'[call.tag_id]) = isoformat_ms(call.utcnow)
       /\ states'[entities'[call.tag_id].entity_id] =
             [state |-> isoformat_ms(call.utcnow),
              attributes |-> [tag_id |-> call.tag_id,
                              device_id |-> OrEmpty(call.device_id)]]
       /\ result'.ok
       /\ pc' = "idle"

\* C6 as claimed: for every tag id that is not in the collection, a scan
\* creates one item whose id is the tag id, with the device ("" when absent)
\* and the scan time, and one entity whose state is that time.
C6_ScanUnknownAnyId ==
    [][ScanUnknownBegins(ScanTagIds) /\ ScanUnknownEnds(ScanTagIds)]_vars

\* C6 as amended: the same for every tag id that is not the empty string.
C6_ScanUnknown ==
    [][/\ ScanUnknownBegins(ScanTagIds \ {""})
       /\ ScanUnknownEnds(ScanTagIds \ {""})]_vars

C6_Witness ==
    /\ pc = "idle"
    /\ call.op = "scan"
    /\ call.current = EmptyDict
    /\ call.tag_id = "tagB"
    /\ call.device_id = None
    /\ call.utcnow.us = 1500
    /\ result.ok
    /\ data["tagB"] = ScanRecord(call)
    /\ pubLog = <<"tagB">>
    /\ states[<<"tag", "tag">>].state = <<1, 1>>

\* C7: a scan of a tag id that is in the collection creates nothing, sets
\* the item's device_id and last_scanned, tells the listener one update, and
\* leaves the entity with the device of that scan.
C7_ScanKnown ==
    [][/\ (/\ Called
           /\ call'.op = "scan"
           /\ setup
           /\ call'.tag_id \in DOMAIN data)
          => /\ result'.ok
             /\ data' = Put(data, call'.tag_id,
                            Merge(data[call'.tag_id],
                                  [last_scanned |-> isoformat(now),
                                   device_id |-> OrEmpty(call'.device_id)]))
       /\ (/\ pc = "notify"
           /\ call.op = "scan"
           /\ call.current # EmptyDict)
          => /\ notes' = <<[change_type |-> CHANGE_UPDATED,
                            item_id |-> call.tag_id,
                            item |-> data[call.tag_id]]>>
             /\ DOMAIN entities' = DOMAIN entities
             /\ extra_state_attributes(entities'[call.tag_id]).device_id
                   = OrEmpty(call.device_id)]_vars

\* every published state is that of an entity of the entities dict
NoStateWithoutEntity ==
    \A eid \in DOMAIN states :
        /\ states[eid].attributes.tag_id \in DOMAIN entities
        /\ entities[states[eid].attributes.tag_id].entity_id = eid

\* C8: a delete of an id in the map removes the item, tells the listener one
\* removal, removes the entity and its published state, and no state is
\* published for an entity that is gone.
C8_DeleteRemovesEntity ==
    /\ [][(/\ Called
           /\ call'.op = "delete"
           /\ call'.item_id \in DOMAIN data)
          => /\ result'.ok
             /\ data' = Pop(data, call'.item_id)
             /\ pc' = "save"]_vars
    /\ [][(pc = "notify" /\ call.op = "delete")
          => /\ notes' = <<[change_type |-> CHANGE_REMOVED,
                            item_id |-> call.item_id,
                            item |-> call.current]>>
             /\ call.item_id \in DOMAIN entities
             /\ entities' = Pop(entities, call.item_id)
             /\ entities[call.item_id].entity_id \notin DOMAIN states'
             /\ pubLog' = <<>>]_vars
    /\ []NoStateWithoutEntity
    /\ [][\A i \in 1..Len(pubLog') : pubLog'[i] \in DOMAIN entities']_vars

C8_Witness ==
    /\ pc = "idle"
    /\ call.op = "delete"
    /\ result.ok
    /\ call.item_id \notin DOMAIN data
    /\ call.item_id \notin DOMAIN entities
    /\ LAST_SCANNED \in DOMAIN call.current
    /\ states = EmptyDict
    /\ Len(notes) = 1

\* the patch of an update carries a last_scanned whose string form is not
\* the one of the item it finds
PatchChangesLastScanned(c) ==
    /\ LAST_SCANNED \in DOMAIN c.updates
    /\ isoformat(c.updates[LAST_SCANNED]) # Get(c.current, LAST_SCANNED, EmptyStr)

\* C9: on an update the entity writes its state if and only if the item's
\* last_scanned is not the one the entity holds; an update whose patch
\* changes last_scanned causes one write, any other update causes none and
\* leaves the entity as it was.
C9_PublishIffChanged ==
    [][/\ (pc = "notify" /\ pending.change_type = CHANGE_UPDATED)
          => /\ pending.item_id \in DOMAIN entities
             /\ IF entities[pending.item_id].last_scanned
                      # Get(pending.item, LAST_SCANNED, EmptyStr)
                THEN /\ pubLog' = <<pending.item_id>>
                     /\ entities'[pending.item_id].last_scanned
                           = Get(pending.item, LAST_SCANNED, EmptyStr)
                ELSE /\ pubLog' = <<>>
                     /\ entities' = entities
                     /\ states' = states
       /\ (pc = "notify" /\ call.op = "update")
          => IF PatchChangesLastScanned(call)
             THEN /\ pubLog' = <<call.item_id>>
                  /\ states'[entities'[call.item_id].entity_id].state
                        = isoformat_ms(call.updates[LAST_SCANNED])
             ELSE /\ pubLog' = <<>>
                  /\ entities' = entities
                  /\ states' = states]_vars

C9_Witness ==
    /\ pc = "idle"
    /\ call.op = "update"
    /\ result.ok
    /\ ~PatchChangesLastScanned(call)
    /\ LAST_SCANNED \in DOMAIN call.updates
    /\ DEVICE_ID \in DOMAIN call.updates
    /\ call.updates[DEVICE_ID] # Get(call.current, DEVICE_ID, None)
    /\ pubLog = <<>>
    /\ entities[call.item_id].last_device_id # data[call.item_id][DEVICE_ID]

\* C10: once set up, and whenever no call is running, the entities dict has
\* exactly the ids of the map; setup itself makes one entity per loaded item
\* and writes their states in the order of the list.
C10_EntitiesMatchRecords ==
    /\ ~setup => entities = EmptyDict
    /\ (setup /\ pc = "idle") =>
          /\ DOMAIN entities = DOMAIN data
          /\ \A i \in DOMAIN entities : entities[i].tag_id = i
    /\ call.op = "setup" =>
          /\ pubLog = order
          /\ Len(order) = Cardinality(DOMAIN data)
          /\ \A i \in DOMAIN data : entities[i].entity_id \in DOMAIN states

C10_Witness ==
    /\ setup
    /\ pc = "idle"
    /\ call.op = "delete"
    /\ result.ok
    /\ Cardinality(DOMAIN data) = 2
    /\ DOMAIN entities = DOMAIN data
    /\ "u1" \in DOMAIN entities

\* a record as the schemas let it be: known fields only, a name of length
\* at least one, last_scanned the string form of a datetime
ValidRecord(rec) ==
    /\ DOMAIN rec \subseteq {"tag_id", "name", "description", "last_scanned",
                             "device_id"}
    /\ "name" \in DOMAIN rec => rec["name"] # ""
    /\ "last_scanned" \in DOMAIN rec =>
          /\ rec["last_scanned"] \in Seq(Int)
          /\ Len(rec["last_scanned"]) \in {1, 2}

\* the call made in this step carries a payload the schema rejects (an update
\* is of an item that exists: an unknown id is refused before the patch is
\* looked at)
InvalidCall ==
    \/ /\ call'.op = "create"
       /\ call'.payload \in InvalidCreatePayloads
    \/ /\ call'.op = "update"
       /\ call'.item_id \in DOMAIN data
       /\ call'.updates \in InvalidUpdatePatches

\* C11: a create or an update whose payload the schema rejects (empty name,
\* unknown field, value of the wrong type, the id field in a patch) raises
\* vol.Invalid and changes nothing: map, stored snapshot, entities and
\* states are as before and the listener is told nothing; so every record of
\* the map, in every reachable state, is one the schema accepts.
C11_InvalidRejected ==
    /\ [](\A i \in DOMAIN data : ValidRecord(data[i]))
    /\ [][(Called /\ InvalidCall)
          => /\ result' = [ok |-> FALSE, err |-> "Invalid"]
             /\ NothingDone]_vars

C11_Witness ==
    /\ call.op = "update"
    /\ call.item_id \in DOMAIN data
    /\ call.updates = [tag_id |-> "tagB"]
    /\ result = [ok |-> FALSE, err |-> "Invalid"]
    /\ stored.data = data
    /\ nops = MaxOps

\* C12: async_scan_tag called while the tag component is not loaded raises
\* HomeAssistantError; no tag_scanned event is fired and nothing is created
\* or updated.
C12_ScanBeforeSetup ==
    [][(Called /\ call'.op = "scan" /\ ~setup)
       => /\ result' = [ok |-> FALSE, err |-> "HomeAssistantError"]
          /\ events' = <<>>
          /\ NothingDone]_vars

C12_Witness ==
    /\ ~setup
    /\ call.op = "scan"
    /\ call.tag_id = "tagA"
    /\ result = [ok |-> FALSE, err |-> "HomeAssistantError"]
    /\ events = <<>>
    /\ "tagA" \in DOMAIN stored.data

\* the reference map: create validates, takes the id of the payload or a
\* generated one, refuses an id that is a key, and inserts the record;
\* update refuses an unknown id, validates and merges; delete refuses an
\* unknown id and removes
RefRecord(rec) ==
    IF "last_scanned" \in DOMAIN rec
    THEN [rec EXCEPT !["last_scanned"] = isoformat(@)]
    ELSE rec

RefCreate(m, payload, fresh) ==
    LET given == "tag_id" \in DOMAIN payload /\ payload["tag_id"] # ""
        id == IF given THEN payload["tag_id"] ELSE fresh
    IN  IF payload \in InvalidCreatePayloads \/ id \in DOMAIN m
        THEN m
        ELSE Put(m, id, RefRecord(Put(payload, "tag_id", id)))

RefUpdate(m, id, patch) ==
    IF id \notin DOMAIN m \/ patch \in InvalidUpdatePatches
    THEN m
    ELSE Put(m, id, Merge(m[id], RefRecord(patch)))

RefDelete(m, id) ==
    IF id \notin DOMAIN m THEN m ELSE [k \in DOMAIN m \ {id} |-> m[k]]

RefStep(m, c, fresh) ==
    CASE c.op = "create" -> RefCreate(m, c.payload, fresh)
      [] c.op = "update" -> RefUpdate(m, c.item_id, c.updates)
      [] c.op = "delete" -> RefDelete(m, c.item_id)

\* C13: after each create, update or delete the map is the one the reference
\* map holds after the same operation; both start from the same map, so the
\* maps agree after every sequence of operations exactly when every
\* operation takes equal maps to equal maps.
C13_ReplayEquivalence ==
    [][(Called /\ call'.op \in {"create", "update", "delete"})
       => \E fresh \in UUIDs : data' = RefStep(data, call', fresh)]_vars

\* the value a patched field is stored with
StoredValue(patch, k) ==
    IF k = "last_scanned" THEN isoformat(patch[k]) ELSE patch[k]

\* C16: a successful update(id, patch) stores under id a record in which
\* every field of the patch has the patch's value (last_scanned as its ISO
\* string) and every other field, the id among them, has the value it had;
\* the other records of the map are as before.
C16_UpdateFrame ==
    [][(Called /\ call'.op = "update" /\ result'.ok)
       => LET id == call'.item_id
              patch == call'.updates
          IN  /\ DOMAIN data' = DOMAIN data
              /\ id \in DOMAIN data
              /\ DOMAIN data'[id] = DOMAIN data[id] \cup DOMAIN patch
              /\ \A k \in DOMAIN patch : data'[id][k] = StoredValue(patch, k)
              /\ \A k \in DOMAIN data[id] \ DOMAIN patch :
                    data'[id][k] = data[id][k]
              /\ \A j \in DOMAIN data \ {id} : data'[j] = data[j]
              /\ result'.value = data'[id]]_vars

C16_Witness ==
    /\ pc = "idle"
    /\ call.op = "update"
    /\ result.ok
    /\ call.item_id = "tagA"
    /\ call.updates = [last_scanned |-> [sec |-> 1, us |-> 1500],
                       device_id |-> "devX"]
    /\ call.current = [tag_id |-> "tagA", name |-> "Door"]
    /\ data["tagA"] = [tag_id |-> "tagA", name |-> "Door",
                       last_scanned |-> <<1, 1500>>, device_id |-> "devX"]
    /\ "tagB" \in DOMAIN data

\* C17: every record of the map is stored under the key that is its own
\* tag_id field (so no two records have the same id), in every reachable
\* state, and no step changes the tag_id of a record that stays in the map.
C17_KeyIsId ==
    /\ [](\A k \in DOMAIN data :
             "tag_id" \in DOMAIN data[k] /\ data[k]["tag_id"] = k)
    /\ [][\A k \in DOMAIN data \cap DOMAIN data' :
             data'[k]["tag_id"] = data[k]["tag_id"]]_vars

C17_Witness ==
    /\ pc = "idle"
    /\ call.op = "update"
    /\ call.updates = [name |-> "Door"]
    /\ result.ok
    /\ DOMAIN data = {"tagA", "u1"}
    /\ data["u1"]["name"] = "Door"

\* C18: every async_scan_tag made once the component is loaded fires exactly
\* one tag_scanned event, whether the tag is known or not and whether or not
\* the create or update that follows succeeds; the event carries the tag_id
\* and the device_id as given (None stays None), and the name the record had
\* before the scan, None when there is no record or no name.  Nothing else
\* fires an event.
C18_OneScanEvent ==
    /\ [][(Called /\ call'.op = "scan" /\ setup)
          => events' =
               <<[event_type |-> "tag_scanned",
                  tag_id |-> call'.tag_id,
                  name |-> IF /\ call'.tag_id \in DOMAIN data
                              /\ "name" \in DOMAIN data[call'.tag_id]
                           THEN data[call'.tag_id]["name"]
                           ELSE "<None>",
                  device_id |-> call'.device_id]>>]_vars
    /\ [][(Called /\ call'.op # "scan") => events' = <<>>]_vars
    /\ [][~Called => events' = events]_vars

C18_Witness ==
    /\ pc = "idle"
    /\ call.op = "scan"
    /\ call.tag_id = "tagA"
    /\ call.device_id = "<None>"
    /\ result.ok
    /\ events = <<[event_type |-> "tag_scanned", tag_id |-> "tagA",
                   name |-> "Door", device_id |-> "<None>"]>>
    /\ data["tagA"]["device_id"] = ""

\* the step in which the listener is told of a removal
RemovalNotified ==
    /\ pc = "notify"
    /\ pending.change_type = "removed"
    /\ pc' = "idle"

\* C19: when a record is deleted, every record that remains in the map still
\* has its entity's state in the state machine, the same as before the delete,
\* also when records share a name or have none.
C19_DeleteKeepsOtherStates ==
    [][RemovalNotified
       => \A i \in DOMAIN data' :
             /\ i \in DOMAIN entities'
             /\ entities'[i].entity_id \in DOMAIN states'
             /\ entities[i].entity_id \in DOMAIN states
             /\ states'[entities'[i].entity_id] = states[entities[i].entity_id]]_vars

\* C20: once the component is set up and no call is running, the
\* _last_scanned an entity holds is the last_scanned of its record, "" when
\* the record has none; and whenever an entity is made or changed, the state
\* written under its entity_id is the one derived from that _last_scanned.
C20_CacheMatchesRecord ==
    /\ []((setup /\ pc = "idle")
          => \A i \in DOMAIN data :
                /\ i \in DOMAIN entities
                /\ entities[i].last_scanned =
                      IF "last_scanned" \in DOMAIN data[i]
                      THEN data[i]["last_scanned"] ELSE <<>>)
    /\ [][\A i \in DOMAIN entities' :
             (i \notin DOMAIN entities \/ entities'[i] # entities[i])
             => /\ entities'[i].entity_id \in DOMAIN states'
                /\ states'[entities'[i].entity_id].state = state(entities'[i])]_vars

C20_Witness ==
    /\ setup
    /\ pc = "idle"
    /\ call.op = "scan"
    /\ result.ok
    /\ call.tag_id = "tagA"
    /\ "last_scanned" \in DOMAIN call.current
    /\ call.current["last_scanned"] # data["tagA"]["last_scanned"]
    /\ entities["tagA"].last_scanned = <<1, 1500>>
    /\ states[entities["tagA"].entity_id].state = <<1, 1>>

\* both calls have run and the collection is at rest
TasksDone ==
    /\ tasks # <<>>
    /\ \A n \in DOMAIN tasks : tasks[n].outcome # "ready"
    /\ pc = "idle"

C15_ListenerFailureCommitted ==
    /\ []((pc = "idle" /\ ~result.ok /\ result.err = "ListenerError")
          => LET change == notes[Len(notes)]
             IN  /\ stored = [data |-> data, order |-> order]
                 /\ IF change.change_type = "removed"
                    THEN change.item_id \notin DOMAIN data
                    ELSE /\ change.item_id \in DOMAIN data
                         /\ data[change.item_id] = change.item)
    /\ [][(pc = "notify" /\ pc' = "idle")
          => (data' = data /\ order' = order /\ stored' = stored)]_vars

C15_Witness ==
    /\ pc = "idle"
    /\ result = [ok |-> FALSE, err |-> "ListenerError"]
    /\ call.op = "create"
    /\ call.payload = [tag_id |-> "tagB", name |-> "Door"]
    /\ "tagB" \in DOMAIN data
    /\ "tagB" \in DOMAIN stored.data
    /\ nops = 1

=============================================================================
